---- MODULE Spec2Model ----
(***************************************************************************)
(* Model of the Last.fm scrobble pipeline (modules/lastfm.py:               *)
(* connect_vc_update, update_np, startscrooble) and of the Spotify client   *)
(* (utils/music/audio_sources/spotify.py: request, get_access_token,        *)
(* get_valid_access_token).                                                 *)
(*                                                                          *)
(* SpecFm        the scrobble pipeline of one player                        *)
(* SpecSp        one SpotifyClient shared by concurrent request() callers   *)
(* SpecClassify  the track gate of startscrooble as a pure function         *)
(* SpecNames     the artist, track name, album and duration startscrooble   *)
(*               submits, as a pure function of the track                   *)
(* SpecLink      the lastfm command (link, unlink) beside the batches       *)
(* SpecExpiry    the expires_at a refresh caches, against the provider's    *)
(*               expiry of the token                                        *)
(***************************************************************************)
EXTENDS Integers, Sequences, FiniteSets, TLC

\* ------------------------------------------------------------------ bounds

\* Offset of the second duration of the classifier inputs from 200000 ms.
NameDurSpan == 999
\* The scrobble clock runs from 0 to MaxTicks * TickMs.
MaxTicks == 3
\* Cap on the sleeps of one voice wait (the code's loop has none).
MaxPolls == 4

\* ------------------------------------------------- scrobble pipeline: data

\* lastfm.py:454  if track.duration < 20000
MinDuration == 20000
\* lastfm.py:460  counter = 3
counter == 3

\* Clock granularity of the pipeline model: 75% of MinDuration, the earliest
\* instant at which the end of the 20000 ms track is scrobbled.
TickMs == (MinDuration * 3) \div 4

Humans == {"u1", "u2"}
Bots == {"b1"}
Users == Humans \cup Bots
\* Order of player.last_channel.members.
RosterOrder == <<"u1", "b1", "u2">>
\* The listeners that join, leave and deafen during a run; the others stay.
Movers == {"u2"}

NoTrack == [uri |-> "none"]
\* track.url of a track with the given uri: the track has the one uri, which
\* both names read.
TrackUrl(uri) == uri
TrackX == [uri |-> "X", url |-> TrackUrl("X"), duration |-> 20000, is_stream |-> FALSE,
           sourceName |-> "spotify", album_name |-> "A", requester |-> "u1"]
TrackS == [uri |-> "S", url |-> TrackUrl("S"), duration |-> 10000, is_stream |-> FALSE,
           sourceName |-> "spotify", album_name |-> "A", requester |-> "u1"]
Tracks == {TrackX, TrackS}

Reasons == {"FINISHED", "STOPPED"}
NoReason == "None"

\* data["lastfm"] of a user record: session key ("" = unlinked) and the flag.
Linked == [sessionkey |-> "sk", scrobble |-> TRUE]
LinkedOff == [sessionkey |-> "sk", scrobble |-> FALSE]
Unlinked == [sessionkey |-> "", scrobble |-> TRUE]
SessionRecords == {Linked, LinkedOff, Unlinked}

NoEntry == [sessionkey |-> "absent"]
NoMark == [last_url |-> "absent"]
NoCall == [kind |-> "none"]

\* What the provider answers to update_nowplaying / track_scrobble:
\* success, LastFmException code 9, LastFmException of another code,
\* any other exception.
Outcomes == {"ok", "code9", "code_other", "exception"}

VARIABLES
  now,              \* utcnow(), ms
  current,          \* player.current
  last_track,       \* player.last_track
  start_time,       \* player.start_time
  botVoice,         \* player.guild.me.voice is set
  members,          \* player.last_channel.members (users connected to voice)
  deaf,             \* users whose voice state is self_deaf or deaf
  user_data,        \* persistent user store: user -> data["lastfm"]
  lastfm_sessions,  \* bot.pool.lastfm_sessions
  lastfm_users,     \* player.lastfm_users: user -> mark
  hpc,              \* position of the running startscrooble: idle, voice_wait, users
  htrack,           \* its track argument
  hnp,              \* its update_np argument
  husers,           \* its users argument (<<>> = None)
  hqueue,           \* listeners the for loop has not reached yet
  polls,            \* sleeps of the running voice wait
  call,             \* the provider call made by the last step (NoCall: none)
  scrobbled,        \* the last successful scrobble: its user and the mark it wrote
  raised            \* the last handler ended by an exception leaving it

fmVars == <<now, current, last_track, start_time, botVoice, members, deaf,
            user_data, lastfm_sessions, lastfm_users, hpc, htrack, hnp, husers,
            hqueue, polls, call, scrobbled, raised>>

InitFm ==
  /\ now = 0
  /\ current = NoTrack
  /\ last_track = NoTrack
  /\ start_time = 0
  /\ botVoice = TRUE
  /\ members = Users
  /\ deaf = {}
  /\ user_data \in [Users -> SessionRecords]
  /\ \A b \in Bots : user_data[b] = Unlinked
  /\ \A u \in Humans \ Movers : user_data[u] = Linked
  /\ lastfm_sessions = [u \in Users |-> NoEntry]
  /\ lastfm_users = [u \in Users |-> NoMark]
  /\ hpc = "idle"
  /\ htrack = NoTrack
  /\ hnp = FALSE
  /\ husers = <<>>
  /\ hqueue = <<>>
  /\ polls = 0
  /\ call = NoCall
  /\ scrobbled = NoMark
  /\ raised = FALSE

\* ------------------------------------------------------ Spotify client: data

Callers == {"c1", "c2"}

\* The client's clock starts at StartTime (seconds); the Unix clock is far from
\* 0, which is what makes a visitor token's millisecond timestamp large.
StartTime == 1000
\* The clock runs to StartTime + MaxElapse.
MaxElapse == 2
\* Token lifetimes the provider hands out, in seconds: 1..MaxLife.
MaxLife == 2
\* Cap on the tokens the provider issues in one run.
MaxIssued == 2
\* Cap on the API attempts of one request() call (the code has none).
MaxAttempts == 3

Lifetimes == 1..MaxLife
\* HTTP statuses of the API: request() tells 200, 401, 404, 429 from the rest.
Statuses == {200, 401, 404, 429, 500}

\* spotify.py:37  self.spotify_cache = {}
EmptyCache == [empty |-> TRUE]
NoFile == [empty |-> TRUE]
NoHeader == [access_token |-> -1]

\* spotify.py:142-148  the api cache: the provider's JSON plus "tyoe" and
\* expires_at; it has no "type" key, so get("type") is None ("absent").
\* acquired is the mode the token was really obtained under.
ApiCache(token, at, expires_in) ==
  [access_token |-> token, expires_in |-> expires_in,
   expires_at |-> at + expires_in, type |-> "absent", acquired |-> "api"]

\* spotify.py:111-116  the visitor cache; stampMs is the provider's
\* accessTokenExpirationTimestampMs, an absolute instant in ms.
VisitorCache(token, at, stampMs) ==
  [access_token |-> token, expires_in |-> stampMs,
   expires_at |-> at + stampMs, type |-> "visitor", acquired |-> "visitor"]

\* The provider's timestamp of a visitor token issued at `at` living `life` s.
StampMs(at, life) == (at + life) * 1000

\* Cache files a previous process (one second before this one) can have left.
InitialFiles ==
  {NoFile}
    \cup {ApiCache(0, StartTime - 1, l) : l \in Lifetimes}
    \cup {VisitorCache(0, StartTime - 1, StampMs(StartTime - 1, l)) : l \in Lifetimes}

VARIABLES
  time,           \* time.time(), seconds
  client_creds,   \* self.client_id and self.client_secret are set
  type,           \* self.type
  disabled,       \* self.disabled
  spotify_cache,  \* self.spotify_cache
  cache_file,     \* content of spotify_cache_file
  pc,             \* caller -> idle, tok_api, tok_visitor, persist, http
  via,            \* caller -> who called get_access_token: valid (157), retry (59)
  hdr,            \* caller -> the token of the API request in flight
  attempts,       \* caller -> API requests sent by the running request() call
  result,         \* caller -> how the last request() call ended
  issued          \* tokens the provider has issued

spVars == <<time, client_creds, type, disabled, spotify_cache, cache_file,
            pc, via, hdr, attempts, result, issued>>

InitSp ==
  /\ time = StartTime
  /\ client_creds \in BOOLEAN
  /\ type = IF client_creds THEN "api" ELSE "visitor"
  /\ disabled = FALSE
  /\ cache_file \in InitialFiles
  /\ spotify_cache = IF cache_file = NoFile THEN EmptyCache ELSE cache_file
  /\ pc = [c \in Callers |-> "idle"]
  /\ via = [c \in Callers |-> "none"]
  /\ hdr = [c \in Callers |-> NoHeader]
  /\ attempts = [c \in Callers |-> 0]
  /\ result = [c \in Callers |-> "none"]
  /\ issued = 0

\* --------------------------------------------------- track gate: the inputs

\* Durations tried: MinDuration - 2 .. MinDuration + DurSpan.
DurSpan == 4
\* Elapsed times tried: 75% of MinDuration, -ElSpan .. +ElSpan.
ElSpan == 4

GateTracks ==
  {[duration |-> d, is_stream |-> st, sourceName |-> src] :
     d \in (MinDuration - 2)..(MinDuration + DurSpan),
     st \in BOOLEAN,
     src \in {"spotify", "youtube", "local", "http"}}
GateElapsed ==
  {e \in 0..(2 * MinDuration) :
     \/ e \in {0, 2 * MinDuration}
     \/ /\ e >= (MinDuration * 3) \div 4 - ElSpan
        /\ e <= (MinDuration * 3) \div 4 + ElSpan}
GateReasons == {"FINISHED", "STOPPED", "REPLACED", "LOAD_FAILED", NoReason}

VARIABLES
  g_track,    \* track
  g_np,       \* update_np
  g_reason,   \* reason
  g_elapsed,  \* utcnow() - player.start_time, ms
  g_out       \* pending, skip (startscrooble returned), eligible

gateVars == <<g_track, g_np, g_reason, g_elapsed, g_out>>

InitGate ==
  /\ g_track \in GateTracks \cup {NoTrack}
  /\ g_np \in BOOLEAN
  /\ g_reason \in GateReasons
  /\ g_elapsed \in GateElapsed
  /\ g_out = "pending"

\* ------------------------------------------- artist and track name: inputs

\* Strings are sequences of characters.
sep_dash == <<" ", "-", " ">>
topic_suffix == <<" ", "-", " ", "t", "o", "p", "i", "c">>
release_topic_suffix == <<"R", "e", "l", "e", "a", "s", "e", " ", "-", " ", "t", "o", "p", "i", "c">>
comma == <<",">>

ArtistTopic == <<"A", "r", "t", "i", "s", "t", " ", "-", " ", "T", "o", "p", "i", "c">>
ArtistTopicLower == <<"A", "r", "t", "i", "s", "t", " ", "-", " ", "t", "o", "p", "i", "c">>
TwoArtistsTopic == <<"A", "r", ",", " ", "B", " ", "-", " ", "t", "o", "p", "i", "c">>
ReleaseTopic == <<"N", "e", "w", " ", "R", "e", "l", "e", "a", "s", "e", " ", "-", " ", "t", "o", "p", "i", "c">>
ArtistPlain == <<"A", "r", "t", "i", "s", "t">>
SongTitle == <<"S", "o", "n", "g", " ", "T", "i", "t", "l", "e">>
ArtistDashSong == <<"A", "r", "t", "i", "s", "t", " ", "-", " ", "S", "o", "n", "g">>
ArtistSong == <<"A", "r", "t", "i", "s", "t", " ", "S", "o", "n", "g">>
Song == <<"S", "o", "n", "g">>
Album == <<"A", "l", "b", "u", "m">>

Authors == {ArtistTopic, ArtistTopicLower, TwoArtistsTopic, ReleaseTopic, ArtistPlain}
Titles == {SongTitle, ArtistDashSong, ArtistSong}
SingleTitles == {SongTitle, Song}
\* Durations tried, ms: the 200000 of the scenario, one that is no multiple of
\* 1000, and one below MinDuration.
NameDurations == {200000, 200000 + NameDurSpan, MinDuration - 1}

NameTracks ==
  {[sourceName |-> src, ytid |-> y, author |-> a, title |-> t, single_title |-> st,
    album_name |-> al, autoplay |-> ap, duration |-> d, is_stream |-> FALSE] :
     src \in {"youtube", "soundcloud", "spotify"}, y \in BOOLEAN, a \in Authors,
     t \in Titles, st \in SingleTitles, al \in {<<>>, Album}, ap \in BOOLEAN,
     d \in NameDurations}

NoFields == [status |-> "pending"]

VARIABLES
  n_track,  \* track
  n_out     \* pending, return (nothing is submitted), or the submitted fields

nameVars == <<n_track, n_out>>

InitNames ==
  /\ n_track \in NameTracks
  /\ n_out = NoFields

\* ------------------------------------------------- the lastfm command: data

\* data["lastfm"] after a new link: the key get_session_key hands out.
Relinked == [sessionkey |-> "sk2", scrobble |-> TRUE]
\* newdata of an unlink: view.session_key is "".
Cleared == [sessionkey |-> "", scrobble |-> TRUE]
\* What user_info answers for a stored key: the user, or LastFmException 9.
InfoAnswers == {"ok", "code9"}

\* The users who run the command: the listener who starts linked.
Commanders == Humans \ Movers

VARIABLES
  cmd   \* user -> none, or the view the user's lastfm command waits on:
        \* link_view (button "Link"), unlink_view (button "Unlink")

cmdVars == <<cmd>>

InitCmd == cmd = [u \in Humans |-> "none"]

\* ---------------------------------------------- token expiry: the inputs

\* A token is acquired at StartTime .. StartTime + ExpSpan (seconds).
ExpSpan == 3
\* It lives 1 .. ExpLife seconds at the provider.
ExpLife == 4

VARIABLES
  e_mode,   \* the endpoint asked: api, visitor
  e_at,     \* time.time() when the answer is cached
  e_life,   \* seconds the token lives at the provider from e_at
  e_now,    \* time.time() afterwards
  e_cache   \* self.spotify_cache

expVars == <<e_mode, e_at, e_life, e_now, e_cache>>

InitExp ==
  /\ e_mode \in {"api", "visitor"}
  /\ e_at \in StartTime..(StartTime + ExpSpan)
  /\ e_life \in 1..ExpLife
  /\ e_now = e_at
  /\ e_cache = EmptyCache

\* The steps of one specification leave the others' variables alone.
FmOnly == UNCHANGED <<spVars, gateVars, nameVars, cmdVars, expVars>>
SpOnly == UNCHANGED <<fmVars, gateVars, nameVars, cmdVars, expVars>>
GateOnly == UNCHANGED <<fmVars, spVars, nameVars, cmdVars, expVars>>
NamesOnly == UNCHANGED <<fmVars, spVars, gateVars, cmdVars, expVars>>
CmdOnly == UNCHANGED <<spVars, gateVars, nameVars, expVars>>
ExpOnly == UNCHANGED <<fmVars, spVars, gateVars, nameVars, cmdVars>>

\* ---------------------------------------------- scrobble pipeline: helpers

RECURSIVE SelectSeq2(_, _)
\* The members of s that are in set S, in the order of s.
SelectSeq2(s, S) ==
  IF s = <<>> THEN <<>>
  ELSE IF Head(s) \in S THEN <<Head(s)>> \o SelectSeq2(Tail(s), S)
       ELSE SelectSeq2(Tail(s), S)

\* TrackRejected that lets live streams through.
TrackRejected_NoStream(track) ==
  \/ track = NoTrack
  \/ track.sourceName \in {"local", "http"}

\* lastfm.py:446  not track or track.is_stream or sourceName in ("local", "http")
TrackRejected(track) ==
  \/ track = NoTrack
  \/ track.is_stream
  \/ track.sourceName \in {"local", "http"}

\* TooEarly with <= for <: a track played exactly 75% is rejected.
TooEarly_Inclusive(elapsed, duration) == elapsed * 100 <= duration * 75

\* lastfm.py:457  (utcnow() - start_time).total_seconds() < (duration * 0.75) / 1000
\* with elapsed in ms: elapsed / 1000 < duration * 75 / 100 / 1000.
TooEarly(elapsed, duration) == elapsed * 100 < duration * 75

\* lastfm.py:449-458  the checks made when update_np is false; TRUE = return.
EndRejected(track, reason, elapsed) ==
  \/ reason # "FINISHED"
  \/ track.duration < MinDuration
  \/ TooEarly(elapsed, track.duration)

\* lastfm.py:446-458  TRUE = startscrooble returns before the voice wait.
Skip(track, update_np, reason, elapsed) ==
  \/ TrackRejected(track)
  \/ (~update_np /\ EndRejected(track, reason, elapsed))

\* lastfm.py:496  duration = int(track.duration / 1000)
DurationSec(track) == track.duration \div 1000

\* lastfm.py:503-510  bot, no voice state, or deafened: continue.
NotListening(user) ==
  \/ user \in Bots
  \/ user \notin members
  \/ user \in deaf

\* GateClosed that looks at the session key only.
GateClosed_KeyOnly(fminfo) == fminfo.sessionkey = ""

\* lastfm.py:519  fminfo["scrobble"] is False or not fminfo["sessionkey"]
GateClosed(fminfo) == fminfo.scrobble = FALSE \/ fminfo.sessionkey = ""

\* NewMark that forgets the duration: the mark expires as it is written.
NewMark_NoDuration(track) == [last_url |-> track.url, last_timestamp |-> now]

\* lastfm.py:552-555  the mark written after a successful call.
NewMark(track) ==
  [last_url |-> track.url, last_timestamp |-> now + DurationSec(track) * 1000]

ClockBound == MaxTicks * TickMs

\* --------------------------------------------- scrobble pipeline: handlers

\* startscrooble returns (or its for loop is exhausted).
Finish ==
  /\ hpc' = "idle"
  /\ htrack' = NoTrack
  /\ hnp' = FALSE
  /\ husers' = <<>>
  /\ hqueue' = <<>>
  /\ polls' = 0

\* lastfm.py:444-460  entry of startscrooble: the track gate, then the voice wait.
Begin(track, update_np, reason, users) ==
  /\ call' = NoCall
  /\ raised' = FALSE
  /\ IF Skip(track, update_np, reason, now - start_time)
     THEN Finish
     ELSE /\ hpc' = "voice_wait"
          /\ htrack' = track
          /\ hnp' = update_np
          /\ husers' = users
          /\ hqueue' = <<>>
          /\ polls' = 0

\* lastfm.py:501  users or player.last_channel.members
Listeners == IF husers # <<>> THEN husers ELSE SelectSeq2(RosterOrder, members)

\* lastfm.py:471-474  youtube/soundcloud track without album_name: return.
NoAlbum(track) ==
  track.sourceName \in {"youtube", "soundcloud"} /\ track.album_name = ""

\* lastfm.py:460-469, 471-474, 501  one pass of the while loop: sleep while the
\* bot has no voice connection (counter is never decremented), else go on to
\* the for loop.
VoiceWait ==
  /\ FmOnly
  /\ hpc = "voice_wait"
  /\ counter > 0
  /\ call' = NoCall
  /\ UNCHANGED <<now, current, last_track, start_time, botVoice, members, deaf,
                 user_data, lastfm_sessions, lastfm_users, scrobbled, raised>>
  /\ \/ /\ ~botVoice
        /\ polls < MaxPolls
        /\ polls' = polls + 1
        /\ UNCHANGED <<hpc, htrack, hnp, husers, hqueue>>
     \/ /\ botVoice
        /\ IF NoAlbum(htrack) \/ Listeners = <<>>
           THEN Finish
           ELSE /\ hpc' = "users"
                /\ hqueue' = Listeners
                /\ UNCHANGED <<htrack, hnp, husers, polls>>

\* The for loop moves to the next listener, or ends.
Continue ==
  IF Tail(hqueue) = <<>> THEN Finish
  ELSE /\ hqueue' = Tail(hqueue)
       /\ UNCHANGED <<hpc, htrack, hnp, husers, polls>>

\* Invalidate without lines 544-547: the mark of the user survives.
Invalidate_KeepMark(user) ==
  /\ user_data' = [user_data EXCEPT ![user].sessionkey = ""]
  /\ lastfm_sessions' = [lastfm_sessions EXCEPT ![user] = NoEntry]
  /\ UNCHANGED lastfm_users

\* lastfm.py:536-548  code 9: clear the stored key, drop the cache entry and the mark.
Invalidate(user) ==
  /\ user_data' = [user_data EXCEPT ![user].sessionkey = ""]
  /\ lastfm_sessions' = [lastfm_sessions EXCEPT ![user] = NoEntry]
  /\ lastfm_users' = [lastfm_users EXCEPT ![user] = NoMark]

\* lastfm.py:522-555  the provider call for one listener and what follows it.
Submit(user, fminfo, outcome) ==
  LET kind == IF hnp THEN "nowplaying" ELSE "scrobble" IN
  /\ call' = [kind |-> kind, user |-> user, uri |-> htrack.uri,
              duration |-> htrack.duration, outcome |-> outcome,
              key |-> fminfo.sessionkey, scrobble |-> fminfo.scrobble,
              marked |-> lastfm_users[user] # NoMark]
  /\ raised' = FALSE
  /\ Continue
  /\ IF outcome = "ok"
     THEN /\ lastfm_users' = [lastfm_users EXCEPT ![user] = NewMark(htrack)]
          /\ scrobbled' = IF hnp THEN scrobbled
                          ELSE [user |-> user, last_url |-> NewMark(htrack).last_url,
                                last_timestamp |-> NewMark(htrack).last_timestamp]
          /\ UNCHANGED user_data
     ELSE IF outcome = "code9"
     THEN /\ Invalidate(user)
          /\ UNCHANGED scrobbled
     ELSE UNCHANGED <<user_data, lastfm_users, scrobbled>>

\* lastfm.py:501-555  one iteration of the for loop. storeOk: whether
\* get_global_data answers on a cache miss (line 515 is outside every try).
HandleUser ==
  /\ FmOnly
  /\ hpc = "users"
  /\ hqueue # <<>>
  /\ UNCHANGED <<now, current, last_track, start_time, botVoice, members, deaf>>
  /\ LET user == Head(hqueue)
         hit == lastfm_sessions[user] # NoEntry
         fminfo == IF hit THEN lastfm_sessions[user] ELSE user_data[user]
     IN
     \/ /\ NotListening(user)
        /\ call' = NoCall
        /\ Continue
        /\ UNCHANGED <<user_data, lastfm_sessions, lastfm_users, scrobbled, raised>>
     \/ /\ ~NotListening(user)
        /\ ~hit
        /\ call' = NoCall
        /\ raised' = TRUE
        /\ Finish
        /\ UNCHANGED <<user_data, lastfm_sessions, lastfm_users, scrobbled>>
     \/ /\ ~NotListening(user)
        /\ GateClosed(fminfo)
        /\ call' = NoCall
        /\ Continue
        /\ lastfm_sessions' = [lastfm_sessions EXCEPT ![user] = fminfo]
        /\ UNCHANGED <<user_data, lastfm_users, scrobbled, raised>>
     \/ /\ ~NotListening(user)
        /\ ~GateClosed(fminfo)
        /\ \E outcome \in Outcomes :
             /\ Submit(user, fminfo, outcome)
             /\ IF outcome # "code9"
                THEN lastfm_sessions' = [lastfm_sessions EXCEPT ![user] = fminfo]
                ELSE TRUE

\* on_wavelink_track_start: the player starts track t, then update_np runs.
\* lastfm.py:439-441
TrackStart(t) ==
  /\ FmOnly
  /\ hpc = "idle"
  /\ current = NoTrack
  /\ current' = t
  /\ last_track' = t
  /\ start_time' = now
  /\ Begin(t, TRUE, NoReason, <<>>)
  /\ UNCHANGED <<now, botVoice, members, deaf, user_data, lastfm_sessions,
                 lastfm_users, scrobbled>>

\* on_wavelink_track_end: the current track ends with a reason.
\* lastfm.py:443-444
TrackEnd(reason) ==
  /\ FmOnly
  /\ hpc = "idle"
  /\ current # NoTrack
  /\ current' = NoTrack
  /\ Begin(current, FALSE, reason, <<>>)
  /\ UNCHANGED <<now, last_track, start_time, botVoice, members, deaf, user_data,
                 lastfm_sessions, lastfm_users, scrobbled>>

\* lastfm.py:429-435  an unexpired mark for the current uri.
MarkFresh(member) ==
  /\ lastfm_users[member] # NoMark
  /\ lastfm_users[member].last_url = current.uri
  /\ now < lastfm_users[member].last_timestamp

\* on_voice_state_update: a member moves into the player's channel.
\* lastfm.py:409-437
connect_vc_update(member) ==
  /\ FmOnly
  /\ hpc = "idle"
  /\ member \in Movers \ members
  /\ members' = members \cup {member}
  /\ IF current = NoTrack \/ MarkFresh(member)
     THEN /\ call' = NoCall
          /\ UNCHANGED <<hpc, htrack, hnp, husers, hqueue, polls, raised>>
     ELSE Begin(last_track, FALSE, NoReason, <<member>>)
  /\ UNCHANGED <<now, current, last_track, start_time, botVoice, deaf, user_data,
                 lastfm_sessions, lastfm_users, scrobbled>>

\* ------------------------------------------ scrobble pipeline: environment

Tick ==
  /\ FmOnly
  /\ now < ClockBound
  /\ now' = now + TickMs
  /\ call' = NoCall
  /\ UNCHANGED <<current, last_track, start_time, botVoice, members, deaf,
                 user_data, lastfm_sessions, lastfm_users, hpc, htrack, hnp,
                 husers, hqueue, polls, scrobbled, raised>>

\* The bot loses or regains its own voice connection.
BotVoiceChange ==
  /\ FmOnly
  /\ botVoice' = ~botVoice
  /\ call' = NoCall
  /\ UNCHANGED <<now, current, last_track, start_time, members, deaf,
                 user_data, lastfm_sessions, lastfm_users, hpc, htrack, hnp,
                 husers, hqueue, polls, scrobbled, raised>>

\* A listener leaves voice.
VoiceLeave(member) ==
  /\ FmOnly
  /\ member \in Movers \cap members
  /\ members' = members \ {member}
  /\ deaf' = deaf \ {member}
  /\ call' = NoCall
  /\ UNCHANGED <<now, current, last_track, start_time, botVoice,
                 user_data, lastfm_sessions, lastfm_users, hpc, htrack, hnp,
                 husers, hqueue, polls, scrobbled, raised>>

\* A listener deafens or undeafens.
DeafChange(member) ==
  /\ FmOnly
  /\ member \in Movers \cap members
  /\ deaf' = IF member \in deaf THEN deaf \ {member} ELSE deaf \cup {member}
  /\ call' = NoCall
  /\ UNCHANGED <<now, current, last_track, start_time, botVoice, members,
                 user_data, lastfm_sessions, lastfm_users, hpc, htrack, hnp,
                 husers, hqueue, polls, scrobbled, raised>>

NextFm ==
  \/ \E t \in Tracks : TrackStart(t)
  \/ \E r \in Reasons : TrackEnd(r)
  \/ \E m \in Movers : connect_vc_update(m)
  \/ VoiceWait
  \/ HandleUser
  \/ Tick
  \/ BotVoiceChange
  \/ \E m \in Movers : VoiceLeave(m)
  \/ \E m \in Movers : DeafChange(m)

\* ------------------------------------------------- Spotify client: helpers

\* Expired without the comparison of the cached "type" with self.type.
Expired_NoModeCheck(cache) == time >= cache.expires_at

\* spotify.py:156  time.time() >= cache["expires_at"] or cache.get("type") != self.type
Expired(cache) == time >= cache.expires_at \/ cache.type # type

\* The running request() call of caller c ends with result r.
Return(c, r) ==
  /\ pc' = [pc EXCEPT ![c] = "idle"]
  /\ via' = [via EXCEPT ![c] = "none"]
  /\ hdr' = [hdr EXCEPT ![c] = NoHeader]
  /\ attempts' = [attempts EXCEPT ![c] = 0]
  /\ result' = [result EXCEPT ![c] = r]

\* spotify.py:52-55, 158  the API request leaves with the cached token.
Send(c, cache, cfg) ==
  /\ pc' = [pc EXCEPT ![c] = "http"]
  /\ hdr' = [hdr EXCEPT ![c] =
               [access_token |-> cache.access_token, expires_at |-> cache.expires_at,
                acquired |-> cache.acquired, sent_at |-> time, cfg_type |-> cfg]]
  /\ attempts' = [attempts EXCEPT ![c] = @ + 1]
  /\ via' = [via EXCEPT ![c] = "none"]
  /\ UNCHANGED result

\* spotify.py:104-109, 120-132  get_access_token picks the endpoint and awaits it.
Acquire(c, from) ==
  /\ pc' = [pc EXCEPT ![c] = IF client_creds THEN "tok_api" ELSE "tok_visitor"]
  /\ via' = [via EXCEPT ![c] = from]
  /\ UNCHANGED <<hdr, attempts, result>>

\* Enter that does not look at self.disabled.
Enter_IgnoreDisabled(c) ==
  IF spotify_cache = EmptyCache THEN Return(c, "keyerror")
  ELSE IF Expired(spotify_cache) THEN Acquire(c, "valid")
  ELSE Send(c, spotify_cache, type)

\* spotify.py:47-52, 155-158  request() up to its first await: the disabled
\* check, then get_valid_access_token. An empty cache has no "expires_at":
\* KeyError leaves request().
Enter(c) ==
  IF disabled THEN Return(c, "disabled")
  ELSE IF spotify_cache = EmptyCache THEN Return(c, "keyerror")
  ELSE IF Expired(spotify_cache) THEN Acquire(c, "valid")
  ELSE Send(c, spotify_cache, type)

\* ------------------------------------------------ Spotify client: the steps

\* spotify.py:47  a caller calls request().
RequestStart(c) ==
  /\ SpOnly
  /\ pc[c] = "idle"
  /\ Enter(c)
  /\ UNCHANGED <<time, client_creds, type, disabled, spotify_cache, cache_file, issued>>

\* spotify.py:107-118  the visitor endpoint answers.
TokenVisitor(c) ==
  /\ SpOnly
  /\ pc[c] = "tok_visitor"
  /\ issued < MaxIssued
  /\ \E life \in Lifetimes :
       spotify_cache' = VisitorCache(issued + 1, time, StampMs(time, life))
  /\ type' = "visitor"
  /\ issued' = issued + 1
  /\ pc' = [pc EXCEPT ![c] = "persist"]
  /\ UNCHANGED <<time, client_creds, disabled, cache_file, via, hdr, attempts, result>>

\* spotify.py:131-150  the client-credentials endpoint answers: an error drops
\* the credentials and calls get_access_token again (line 139), a token is cached.
TokenApi(c) ==
  /\ SpOnly
  /\ pc[c] = "tok_api"
  /\ UNCHANGED <<time, disabled, cache_file, via, hdr, attempts, result>>
  /\ \/ /\ client_creds' = FALSE
        /\ pc' = [pc EXCEPT ![c] = "tok_visitor"]
        /\ UNCHANGED <<type, spotify_cache, issued>>
     \/ /\ issued < MaxIssued
        /\ \E life \in Lifetimes :
             spotify_cache' = ApiCache(issued + 1, time, life)
        /\ type' = "api"
        /\ issued' = issued + 1
        /\ pc' = [pc EXCEPT ![c] = "persist"]
        /\ UNCHANGED client_creds

\* spotify.py:152-153, then 158 or 60  the cache file is written and
\* get_access_token returns: to get_valid_access_token, which returns the
\* cached token, or to the 401 branch, which calls request() again.
Persist(c) ==
  /\ SpOnly
  /\ pc[c] = "persist"
  /\ cache_file' = spotify_cache
  /\ IF via[c] = "valid" THEN Send(c, spotify_cache, type) ELSE Enter(c)
  /\ UNCHANGED <<time, client_creds, type, disabled, spotify_cache, issued>>

\* spotify.py:55-69  the API answers.
Response(c) ==
  /\ SpOnly
  /\ pc[c] = "http"
  /\ UNCHANGED <<time, client_creds, type, spotify_cache, cache_file, issued>>
  /\ \E status \in Statuses :
       IF status = 200 THEN Return(c, "ok") /\ UNCHANGED disabled
       ELSE IF status = 401
       THEN attempts[c] < MaxAttempts /\ Acquire(c, "retry") /\ UNCHANGED disabled
       ELSE IF status = 404 THEN Return(c, "notfound") /\ UNCHANGED disabled
       ELSE IF status = 429 THEN Return(c, "ratelimited") /\ disabled' = TRUE
       ELSE Return(c, "httperror") /\ UNCHANGED disabled

\* A second passes. The write of the cache file (lines 152-153) is short
\* against the clock: no second passes between a token answer and the end of
\* the write that follows it. Token lifetimes are at least one second.
SpTick ==
  /\ SpOnly
  /\ time < StartTime + MaxElapse
  /\ \A c \in Callers : pc[c] # "persist"
  /\ time' = time + 1
  /\ UNCHANGED <<client_creds, type, disabled, spotify_cache, cache_file,
                 pc, via, hdr, attempts, result, issued>>

NextSp ==
  \/ \E c \in Callers : RequestStart(c)
  \/ \E c \in Callers : TokenVisitor(c)
  \/ \E c \in Callers : TokenApi(c)
  \/ \E c \in Callers : Persist(c)
  \/ \E c \in Callers : Response(c)
  \/ SpTick

\* ------------------------------------------------------- track gate: the step

\* lastfm.py:446-458  the gate applied to the inputs.
Gate ==
  /\ GateOnly
  /\ g_out = "pending"
  /\ g_out' = IF Skip(g_track, g_np, g_reason, g_elapsed) THEN "skip" ELSE "eligible"
  /\ UNCHANGED <<g_track, g_np, g_reason, g_elapsed>>

NextGate == Gate

\* ------------------------------------ artist and track name: the functions

\* str.endswith
EndsWith(s, suffix) ==
  /\ Len(s) >= Len(suffix)
  /\ SubSeq(s, Len(s) - Len(suffix) + 1, Len(s)) = suffix

\* str.startswith
StartsWith(s, prefix) ==
  /\ Len(s) >= Len(prefix)
  /\ SubSeq(s, 1, Len(prefix)) = prefix

\* s[:-n]
DropLast(s, n) == IF Len(s) <= n THEN <<>> ELSE SubSeq(s, 1, Len(s) - n)

\* str.find, 1-based; 0 = not found.
Find(s, x) ==
  LET hits == {i \in 1..Len(s) : StartsWith(SubSeq(s, i, Len(s)), x)}
  IN IF hits = {} THEN 0 ELSE CHOOSE i \in hits : \A j \in hits : i <= j

\* s.split(x, maxsplit=1)
SplitOnce(s, x) ==
  LET i == Find(s, x)
  IN IF i = 0 THEN <<s>>
     ELSE <<SubSeq(s, 1, i - 1), SubSeq(s, i + Len(x), Len(s))>>

\* s.split(",")[0]
BeforeComma(s) == SplitOnce(s, comma)[1]

\* lastfm.py:477  the topic-channel test.
IsTopic(track) ==
  /\ EndsWith(track.author, topic_suffix)
  /\ ~EndsWith(track.author, release_topic_suffix)
  /\ ~StartsWith(track.title, DropLast(track.author, Len(topic_suffix)))

\* lastfm.py:476-494  artist and track name, as <<artist, name>>.
ArtistAndName(track) ==
  IF track.sourceName \in {"youtube", "soundcloud"}
  THEN LET pair ==
             IF track.ytid
             THEN IF IsTopic(track)
                  THEN <<DropLast(track.author, Len(topic_suffix)), track.title>>
                  ELSE IF Len(SplitOnce(track.title, sep_dash)) = 2
                       THEN SplitOnce(track.title, sep_dash)
                       ELSE <<track.author, track.title>>
             ELSE <<track.author, track.single_title>>
       IN <<BeforeComma(pair[1]), pair[2]>>
  ELSE <<BeforeComma(track.author), track.single_title>>

\* lastfm.py:498-499  the album, with its fallback to single_title.
AlbumOf(track) ==
  IF /\ track.album_name = <<>>
     /\ ~track.autoplay
     /\ track.sourceName \in {"spotify", "deezer", "applemusic", "tidal"}
  THEN track.single_title
  ELSE track.album_name

\* lastfm.py:446-499, 522-526  the fields submitted for the end of a track
\* played for `elapsed` ms, or "return" when nothing is submitted.
Fields(track, elapsed) ==
  IF Skip(track, FALSE, "FINISHED", elapsed) THEN [status |-> "return"]
  ELSE IF track.sourceName \in {"youtube", "soundcloud"} /\ track.album_name = <<>>
  THEN [status |-> "return"]
  ELSE [status |-> "submit", artist |-> ArtistAndName(track)[1],
        track |-> ArtistAndName(track)[2], album |-> AlbumOf(track),
        duration |-> DurationSec(track)]

\* The end of a track that has played 90% of its duration.
Names ==
  /\ NamesOnly
  /\ n_out = NoFields
  /\ n_out' = Fields(n_track, (n_track.duration * 9) \div 10)
  /\ UNCHANGED n_track

NextNames == Names

\* ---------------------------------------------- the lastfm command: steps

\* lastfm.py:161-181, 342-352  the command up to view.wait(): a stored key is
\* checked with user_info; code 9 clears the stored key (the cache is left as
\* it is) and the view offers to link; without a stored key the record is
\* written with an empty key. Another LastFmException ends the command with
\* nothing changed.
CmdOpen(u) ==
  /\ CmdOnly
  /\ cmd[u] = "none"
  /\ call' = NoCall
  /\ UNCHANGED <<now, current, last_track, start_time, botVoice, members, deaf,
                 lastfm_sessions, lastfm_users, hpc, htrack, hnp, husers, hqueue,
                 polls, scrobbled, raised>>
  /\ IF user_data[u].sessionkey # ""
     THEN \E answer \in InfoAnswers :
            IF answer = "ok"
            THEN /\ cmd' = [cmd EXCEPT ![u] = "unlink_view"]
                 /\ UNCHANGED user_data
            ELSE /\ cmd' = [cmd EXCEPT ![u] = "link_view"]
                 /\ user_data' = [user_data EXCEPT ![u].sessionkey = ""]
     ELSE /\ cmd' = [cmd EXCEPT ![u] = "link_view"]
          /\ user_data' = [user_data EXCEPT ![u].sessionkey = ""]

\* lastfm.py:352-400  view.wait() returns: by the link (check_session_loop got
\* a session key), by the button "Unlink", or by timeout or error, where the
\* command returns (354-369). Link and unlink write newdata to the store and
\* to the cache (371-375); after a link, update_np is started for the player
\* of the user's channel (386-393) -- here when no batch is running.
CmdClose(u) ==
  /\ CmdOnly
  /\ cmd[u] # "none"
  /\ cmd' = [cmd EXCEPT ![u] = "none"]
  /\ UNCHANGED <<now, current, last_track, start_time, botVoice, members, deaf,
                 lastfm_users, scrobbled>>
  /\ \E done \in BOOLEAN :
       IF ~done
       THEN /\ call' = NoCall
            /\ UNCHANGED <<user_data, lastfm_sessions, hpc, htrack, hnp, husers,
                           hqueue, polls, raised>>
       ELSE LET newdata == IF cmd[u] = "link_view" THEN Relinked ELSE Cleared IN
            /\ user_data' = [user_data EXCEPT ![u] = newdata]
            /\ lastfm_sessions' = [lastfm_sessions EXCEPT ![u] = newdata]
            /\ IF cmd[u] = "link_view" /\ u \in members /\ hpc = "idle"
               THEN Begin(last_track, TRUE, NoReason, <<>>)
               ELSE /\ call' = NoCall
                    /\ UNCHANGED <<hpc, htrack, hnp, husers, hqueue, polls, raised>>

\* The command and the batches of a player whose listeners stay.
NextLink ==
  \/ \E u \in Commanders : CmdOpen(u)
  \/ \E u \in Commanders : CmdClose(u)
  \/ \E t \in Tracks : TrackStart(t)
  \/ \E r \in Reasons : TrackEnd(r)
  \/ VoiceWait
  \/ HandleUser
  \/ Tick

\* ------------------------------------------------- token expiry: the steps

\* spotify.py:110-117, 141-148  the answer of the endpoint is cached: the api
\* endpoint gives expires_in = the lifetime in seconds, the visitor endpoint
\* accessTokenExpirationTimestampMs = the instant of expiry in ms.
ExpRefresh ==
  /\ ExpOnly
  /\ e_cache = EmptyCache
  /\ e_cache' = IF e_mode = "api"
                THEN ApiCache(1, e_at, e_life)
                ELSE VisitorCache(1, e_at, StampMs(e_at, e_life))
  /\ UNCHANGED <<e_mode, e_at, e_life, e_now>>

\* A second passes after the refresh, up to one second past the provider's expiry.
ExpTick ==
  /\ ExpOnly
  /\ e_cache # EmptyCache
  /\ e_now <= e_at + e_life
  /\ e_now' = e_now + 1
  /\ UNCHANGED <<e_mode, e_at, e_life, e_cache>>

NextExp == ExpRefresh \/ ExpTick

\* ------------------------------------------------------- the specifications

vars == <<fmVars, spVars, gateVars, nameVars, cmdVars, expVars>>

\* One fixed state of each part, for the specifications of the other parts.
FmParked == InitFm /\ \A u \in Movers : user_data[u] = Unlinked
SpParked == InitSp /\ ~client_creds /\ cache_file = NoFile
GateParked ==
  /\ g_track = NoTrack
  /\ g_np = FALSE
  /\ g_reason = NoReason
  /\ g_elapsed = 0
  /\ g_out = "pending"
NamesParked ==
  /\ InitNames
  /\ n_track = CHOOSE t \in NameTracks : TRUE

ExpParked == InitExp /\ e_mode = "api" /\ e_at = StartTime /\ e_life = 1

Init == InitFm /\ SpParked /\ GateParked /\ NamesParked /\ InitCmd /\ ExpParked
InitSpotify == FmParked /\ InitSp /\ GateParked /\ NamesParked /\ InitCmd /\ ExpParked
InitClassify == FmParked /\ SpParked /\ InitGate /\ NamesParked /\ InitCmd /\ ExpParked
InitNaming == FmParked /\ SpParked /\ GateParked /\ InitNames /\ InitCmd /\ ExpParked
InitExpiry == FmParked /\ SpParked /\ GateParked /\ NamesParked /\ InitCmd /\ InitExp

SpecFm == Init /\ [][NextFm]_vars
SpecSp == InitSpotify /\ [][NextSp]_vars
SpecClassify == InitClassify /\ [][NextGate]_vars
SpecNames == InitNaming /\ [][NextNames]_vars
SpecLink == Init /\ [][NextLink]_vars
SpecExpiry == InitExpiry /\ [][NextExp]_vars

\* ------------------------------------------------------------------ claims

\* C1 (as claimed): once a scrobble of (user, uri) has succeeded and written
\* its mark, no step makes another track_scrobble call for the same user and
\* uri while now is before that mark's last_timestamp.
C1_NoResubmit ==
  [][(/\ call'.kind = "scrobble"
      /\ scrobbled # NoMark
      /\ scrobbled.user = call'.user
      /\ scrobbled.last_url = call'.uri)
     => ~(now < scrobbled.last_timestamp)]_vars

C7_Isolated == ~raised

\* C8 (as claimed): one voice wait sleeps at most `counter` times.
C8_BoundedWait == polls <= counter

\* C9 (as claimed): no provider call, now-playing or scrobble, is made for a
\* track shorter than 20000 ms.
C9_NoShortSubmission == call.kind # "none" => call.duration >= MinDuration

\* C10: for a track-end event with reason FINISHED of a track of at least
\* 20000 ms that line 446 lets through, the gate returns early iff
\* elapsed * 4 < duration * 3; at equality the track goes on.
C10_Boundary ==
  (/\ g_out # "pending"
   /\ ~g_np
   /\ g_reason = "FINISHED"
   /\ ~TrackRejected(g_track)
   /\ g_track.duration >= MinDuration)
  => ((g_out = "skip") <=> (g_elapsed * 4 < g_track.duration * 3))

\* C10 witness: a track played exactly 75% of its duration is eligible.
C10_Witness ==
  /\ g_out = "eligible"
  /\ ~g_np
  /\ g_reason = "FINISHED"
  /\ g_elapsed * 4 = g_track.duration * 3

\* C2 (as claimed): of the callers whose get_valid_access_token found the
\* cached token expired or of the wrong mode, at most one is fetching a token
\* at any time; the others wait for its result.
C2_SingleFlight ==
  Cardinality({c \in Callers : pc[c] \in {"tok_api", "tok_visitor"} /\ via[c] = "valid"}) <= 1

\* C3 (as claimed): one request() call sends at most 2 API requests, the
\* second after the one refresh a 401 forces.
C3_BoundedRetry == \A c \in Callers : attempts[c] <= 2

\* C4: once disabled is set it stays set, and a request() entered while it is
\* set (by a caller, or by the 401 branch after its refresh) returns at once:
\* it starts neither a token acquisition nor an API request.
C4_Sticky ==
  [][disabled
     => /\ disabled'
        /\ \A c \in Callers :
             /\ pc[c] = "idle" => pc'[c] = "idle"
             /\ (pc[c] = "persist" /\ via[c] = "retry") => pc'[c] \in {"persist", "idle"}]_vars

\* C4 witness: a request() made after the 429 has returned at line 50.
C4_Witness == \E c \in Callers : disabled /\ pc[c] = "idle" /\ result[c] = "disabled"

\* C5: the token of every API request in flight was, when
\* get_valid_access_token returned it, before its expires_at and acquired
\* under the mode self.type named.
C5_TokenValid ==
  \A c \in Callers :
    pc[c] = "http"
    => /\ hdr[c].sent_at < hdr[c].expires_at
       /\ hdr[c].acquired = hdr[c].cfg_type

\* C5 witness: an API request is in flight with a token fetched in this run,
\* after the clock has moved.
C5_Witness ==
  \E c \in Callers : pc[c] = "http" /\ hdr[c].access_token > 0 /\ hdr[c].sent_at > StartTime

\* C11: a provider call is made for a user only if, at that step, the user is
\* not a bot, is connected to voice and not deafened, and the session resolved
\* for the user (cache entry, or the stored record on a miss) has scrobble
\* enabled and a non-empty key.
C11_Gate ==
  [][call'.kind # "none"
     => /\ call'.user \notin Bots
        /\ call'.user \in members
        /\ call'.user \notin deaf
        /\ call'.scrobble
        /\ call'.key # ""]_vars

\* C11 witness: a batch has submitted for u1 and ended after resolving u2,
\* connected and not deafened, whose session has a key but scrobble disabled.
C11_Witness ==
  /\ hpc = "idle"
  /\ call = NoCall
  /\ "u2" \in members \ deaf
  /\ lastfm_sessions["u2"] = LinkedOff
  /\ lastfm_users["u1"] # NoMark
  /\ lastfm_users["u2"] = NoMark

\* C12 (as claimed): the end of a youtube/soundcloud track with a video id and
\* an album name, at least 20000 ms long and played 90%, whose author ends with
\* the topic suffix in either spelling (" - Topic" as in "Artist - Topic", or
\* " - topic") but not with "Release - topic", and whose title does not start
\* with the author less the suffix, is submitted with artist = author less the
\* suffix cut at the first comma, track = the full title and duration =
\* floor(duration / 1000).
C12_Topic ==
  (/\ n_out # NoFields
   /\ \/ EndsWith(n_track.author, topic_suffix)
      \/ EndsWith(n_track.author, <<" ", "-", " ", "T", "o", "p", "i", "c">>)
   /\ ~EndsWith(n_track.author, release_topic_suffix)
   /\ ~StartsWith(n_track.title, DropLast(n_track.author, Len(topic_suffix)))
   /\ n_track.sourceName \in {"youtube", "soundcloud"}
   /\ n_track.ytid
   /\ n_track.album_name # <<>>
   /\ n_track.duration >= MinDuration)
  => /\ n_out.status = "submit"
     /\ n_out.artist = BeforeComma(DropLast(n_track.author, Len(topic_suffix)))
     /\ n_out.track = n_track.title
     /\ n_out.duration = n_track.duration \div 1000

\* C13 (as claimed): once the client has dropped its credentials and holds the
\* visitor token obtained in their place, every later state has self.type =
\* "visitor" and a cached token obtained from the visitor endpoint.
C13_Downgraded ==
  [][(/\ ~client_creds
      /\ type = "visitor"
      /\ spotify_cache # EmptyCache
      /\ spotify_cache.acquired = "visitor")
     => /\ type' = "visitor"
        /\ spotify_cache'.acquired = "visitor"]_vars

\* C14 (as claimed): a request() entered while the cache is the token state
\* loaded from the file of the previous process (token 0), obtained under the
\* mode this client is configured for and not yet expired, acquires nothing:
\* the API request leaves with the loaded token.
C14_RestartReuse ==
  [][\A c \in Callers :
       (/\ pc[c] = "idle"
        /\ ~disabled
        /\ spotify_cache # EmptyCache
        /\ spotify_cache.access_token = 0
        /\ spotify_cache.acquired = type
        /\ time < spotify_cache.expires_at)
       => /\ pc'[c] \in {"idle", "http"}
          /\ pc'[c] = "http" => hdr'[c].access_token = 0]_vars

\* C15 (as claimed): no request() call ends by the failure of
\* get_valid_access_token to read the cache; on an empty cache the first call
\* acquires a token.
C15_FirstUse == \A c \in Callers : result[c] # "keyerror"

\* C16 (as claimed): a request() entered with a token in the cache that a
\* refresh of this process put there starts a token acquisition iff the clock
\* has reached the token's expires_at or the token was obtained under another
\* mode than the configured one; otherwise the API request leaves with the
\* cached token.
C16_NoNeedlessRefresh ==
  [][\A c \in Callers :
       (/\ pc[c] = "idle"
        /\ pc'[c] # "idle"
        /\ spotify_cache # EmptyCache
        /\ spotify_cache.access_token > 0)
       => IF time >= spotify_cache.expires_at \/ spotify_cache.acquired # type
          THEN pc'[c] \in {"tok_api", "tok_visitor"}
          ELSE pc'[c] = "http" /\ hdr'[c].access_token = spotify_cache.access_token]_vars

\* C17 (as claimed): when a member joins the player's channel while a track is
\* current and the member has no unexpired mark for its uri, the handler goes
\* on to a now-playing batch whose users are that member alone.
C17_JoinNowPlaying ==
  [][\A m \in Movers :
       (/\ m \notin members
        /\ m \in members'
        /\ current # NoTrack
        /\ ~TrackRejected(current)
        /\ ~MarkFresh(m))
       => /\ hpc' = "voice_wait"
          /\ hnp'
          /\ husers' = <<m>>]_vars

\* C18: a step changes the mark of a user only if it made a provider call for
\* that user: a successful call leaves the user's mark at {uri of the submitted
\* track, now + floor(duration / 1000) s}, the uri being the track's uri that
\* connect_vc_update compares; a call answered with code 9 removes the mark;
\* any other call leaves all marks as they were. The marks of all other users
\* are unchanged by every step.
C18_Marks ==
  [][/\ \A u \in Users :
          lastfm_users'[u] # lastfm_users[u]
          => /\ call'.kind # "none"
             /\ call'.user = u
             /\ call'.outcome \in {"ok", "code9"}
             /\ call'.outcome = "code9" => lastfm_users'[u] = NoMark
     /\ (call'.kind # "none" /\ call'.outcome = "ok")
        => lastfm_users'[call'.user] =
             [last_url |-> call'.uri,
              last_timestamp |-> now + (call'.duration \div 1000) * 1000]]_vars

\* C18 witness: a call for u2 has succeeded and written a mark that differs
\* from the mark u1 holds from an earlier batch.
C18_Witness ==
  /\ call.kind # "none"
  /\ call.outcome = "ok"
  /\ call.user = "u2"
  /\ lastfm_users["u2"].last_url = call.uri
  /\ lastfm_users["u1"] # NoMark
  /\ lastfm_users["u1"] # lastfm_users["u2"]

\* C19: whatever the event (now-playing, end of track, voice join), the
\* duration and the elapsed time, startscrooble returns before any user is
\* looked at when the track is missing, is a live stream or comes from the
\* local or http source; and an end-of-track event whose reason is not
\* FINISHED (or is absent) returns as well.
C19_Ineligible ==
  (/\ g_out # "pending"
   /\ \/ g_track = NoTrack
      \/ g_track.is_stream
      \/ g_track.sourceName = "local"
      \/ g_track.sourceName = "http"
      \/ (~g_np /\ g_reason # "FINISHED"))
  => g_out = "skip"

\* C19 witness: a now-playing event of a live stream from spotify, long
\* enough, has been turned away.
C19_Witness ==
  /\ g_out = "skip"
  /\ g_np
  /\ g_track # NoTrack
  /\ g_track.is_stream
  /\ g_track.sourceName = "spotify"
  /\ g_track.duration >= MinDuration

\* C20 (as claimed): whenever the cache holds an entry for a user, its session
\* key is the session key of the user's stored record.
C20_Coherent ==
  \A u \in Users :
    lastfm_sessions[u] # NoEntry
    => lastfm_sessions[u].sessionkey = user_data[u].sessionkey

\* C21 (as claimed): after a refresh in either mode the cached expires_at is
\* the acquisition time plus the token's lifetime in seconds, so that
\* now >= expires_at is true exactly from the provider-side expiry on.
C21_Expiry ==
  e_cache # EmptyCache
  => /\ e_cache.expires_at = e_at + e_life
     /\ (e_now >= e_cache.expires_at) <=> (e_now >= e_at + e_life)

====
